---------------------------- MODULE Spec2Model ----------------------------
(***************************************************************************)
(* Model of the Gmail/Sheets reconciliation scripts of email-control-gas:  *)
(*   processNewProposals    (src/unnamed/part_003, older: src/src/Code.ts)  *)
(*   processSignedProposals (src/unnamed/part_001, older: part_000)         *)
(*   validateSheetEmail     (src/src/validateEmail.ts)                      *)
(*                                                                         *)
(* Text is modelled as a sequence of one-character tokens.  Three tokens   *)
(* abbreviate a literal phrase of a regular expression of the source:      *)
(*   "C" = "Controle E-mail",  "T" = "Transferência de Cotas",             *)
(*   "x" = any other run of non-space, non-digit, non-dash text.           *)
(* A sheet is the sequence of its rows; a row keeps column A (a) and       *)
(* column F (f), the only columns the scripts read back.                   *)
(***************************************************************************)
EXTENDS Integers, Sequences, FiniteSets, TLC

VARIABLES sheet, user, gmailNew, gmailSigned, inv, runs, prev

vars == <<sheet, user, gmailNew, gmailSigned, inv, runs, prev>>

-----------------------------------------------------------------------------
(* Program constants *)

BATCH_SIZE == 100
MAX_EMAILS_TO_PROCESS == 200
EMAIL_CHUNK_SIZE == 50

(* Bounds of the model *)

MaxRows == 2      \* data rows below row 1 in the initial sheet
MaxHead == 2      \* threads at the newest end of a mailbox
MaxRuns == 2      \* invocations in one behaviour
MaxFetches == 6   \* searches of one invocation under LongFeedSpec (never reached)

-----------------------------------------------------------------------------
(* Text *)

DigitChars == <<"0", "1", "2", "3", "4", "5", "6", "7", "8", "9">>
Digits == {DigitChars[i] : i \in 1..10}
IsDigit(c) == c \in Digits
IsSpace(c) == c = " "
DigitVal(c) == (CHOOSE i \in 1..10 : DigitChars[i] = c) - 1

OK == <<"o", "k">>
EMPTY == <<>>

Min(a, b) == IF a < b THEN a ELSE b

Reverse(s) == [i \in 1..Len(s) |-> s[Len(s) + 1 - i]]

\* array.flat(): the concatenation of ss[i..j]
RECURSIVE FlatRange(_, _, _)
FlatRange(ss, i, j) ==
  IF i > j THEN <<>>
  ELSE IF i = j THEN ss[i]
  ELSE LET k == (i + j) \div 2
       IN FlatRange(ss, i, k) \o FlatRange(ss, k + 1, j)

Flat(ss) == FlatRange(ss, 1, Len(ss))

\* index of the first position >= i of s that holds no space (Len(s)+1 if none)
RECURSIVE SkipSpaces(_, _)
SkipSpaces(s, i) ==
  IF i <= Len(s) /\ IsSpace(s[i]) THEN SkipSpaces(s, i + 1) ELSE i

\* index just after the run of digits of s that starts at i
RECURSIVE DigitsEnd(_, _)
DigitsEnd(s, i) ==
  IF i <= Len(s) /\ IsDigit(s[i]) THEN DigitsEnd(s, i + 1) ELSE i

\* index just after the run of non-space characters of s that starts at i
RECURSIVE NonSpaceEnd(_, _)
NonSpaceEnd(s, i) ==
  IF i <= Len(s) /\ ~IsSpace(s[i]) THEN NonSpaceEnd(s, i + 1) ELSE i

RECURSIVE DecimalValue(_)
DecimalValue(ds) ==
  IF ds = <<>> THEN 0
  ELSE 10 * DecimalValue(SubSeq(ds, 1, Len(ds) - 1)) + DigitVal(ds[Len(ds)])

\* parseInt(text, 10): leading white space, an optional sign, then digits up
\* to the first other character; NaN when there is no digit.
ParseInt(s) ==
  LET i == SkipSpaces(s, 1)
      neg == i <= Len(s) /\ s[i] = "-"
      j == IF i <= Len(s) /\ s[i] \in {"-", "+"} THEN i + 1 ELSE i
      e == DigitsEnd(s, j)
  IN IF e = j THEN [nan |-> TRUE, val |-> 0]
     ELSE [nan |-> FALSE,
           val |-> IF neg THEN 0 - DecimalValue(SubSeq(s, j, e - 1))
                   ELSE DecimalValue(SubSeq(s, j, e - 1))]

\* parseInt(x, 10) || 0
ParseIntOrZero(s) == IF ParseInt(s).nan THEN 0 ELSE ParseInt(s).val

\* parseInt(x, 10) === n
ParseIntIs(s, n) == ~ParseInt(s).nan /\ ParseInt(s).val = n

\* index of the first character of the run of digits of s that ends at i
\* (i + 1 if s[i] is no digit)
RECURSIVE DigitsStart(_, _)
DigitsStart(s, i) ==
  IF i >= 1 /\ IsDigit(s[i]) THEN DigitsStart(s, i - 1) ELSE i + 1

\* index of the first character of the run of spaces of s that ends at i
RECURSIVE SpacesStart(_, _)
SpacesStart(s, i) ==
  IF i >= 1 /\ IsSpace(s[i]) THEN SpacesStart(s, i - 1) ELSE i + 1

\* (variant: the pattern without its end anchor, /-\s*(\d+)/)
MatchNewSubjectUnanchored(s) ==
  LET hits == {i \in 1..Len(s) :
                 /\ s[i] = "-"
                 /\ DigitsEnd(s, SkipSpaces(s, i + 1)) > SkipSpaces(s, i + 1)}
  IN IF hits = {} THEN <<>>
     ELSE LET i == CHOOSE h \in hits : \A g \in hits : h <= g
              d == SkipSpaces(s, i + 1)
          IN <<SubSeq(s, d, DigitsEnd(s, d) - 1)>>

\* subject.match(/-\s*(\d+)$/): the sequence of captured groups, <<>> for null.
\* The pattern is anchored at the end: the subject must end in a run of
\* digits, with a dash and then only white space before the run.
MatchNewSubject(s) ==
  LET d == DigitsStart(s, Len(s))
      b == SpacesStart(s, d - 1)
  IN IF d <= Len(s) /\ b >= 2 /\ s[b - 1] = "-"
       THEN <<SubSeq(s, d, Len(s))>>
       ELSE <<>>

\* subject.match(/Transferência de Cotas\s*-\s*(\d+)/)
MatchSignedSubject(s) ==
  LET dash(i) == SkipSpaces(s, i + 1)
      hits == {i \in 1..Len(s) :
                 /\ s[i] = "T"
                 /\ dash(i) <= Len(s) /\ s[dash(i)] = "-"
                 /\ LET d == SkipSpaces(s, dash(i) + 1)
                    IN DigitsEnd(s, d) > d}
  IN IF hits = {} THEN <<>>
     ELSE LET i == CHOOSE h \in hits : \A g \in hits : h <= g
              d == SkipSpaces(s, dash(i) + 1)
          IN <<SubSeq(s, d, DigitsEnd(s, d) - 1)>>

\* headerValue.match(/Controle E-mail\s*-\s*([^\s]+)/)
MatchHeader(s) ==
  LET dash(i) == SkipSpaces(s, i + 1)
      hits == {i \in 1..Len(s) :
                 /\ s[i] = "C"
                 /\ dash(i) <= Len(s) /\ s[dash(i)] = "-"
                 /\ LET d == SkipSpaces(s, dash(i) + 1)
                    IN NonSpaceEnd(s, d) > d}
  IN IF hits = {} THEN <<>>
     ELSE LET i == CHOOSE h \in hits : \A g \in hits : h <= g
              d == SkipSpaces(s, dash(i) + 1)
          IN <<SubSeq(s, d, NonSpaceEnd(s, d) - 1)>>


-----------------------------------------------------------------------------
(* The mailbox behind GmailApp.search.  A mailbox is the result list of one  *)
(* query, newest thread first: `head`, then `pad` threads that carry no      *)
(* proposal number, then `tail` (no thread or one older thread).  A thread   *)
(* is the sequence of its messages' subjects.                                *)

NewSubject(k) == <<"x", "-", " ">> \o k
NoKeyNewSubject == <<"x", "-", " ", "1", " ", "x">>
SignedSubject(k) == <<"x", " ", "T", " ", "-", " ">> \o k \o <<" ", "x">>
NoKeySignedSubject == <<"x", " ", "T", " ", "1", " ", "x">>

MailLen(m) == Len(m.head) + m.pad + Len(m.tail)

ThreadAt(m, i) ==
  IF i <= Len(m.head) THEN m.head[i]
  ELSE IF i <= Len(m.head) + m.pad THEN m.filler
  ELSE m.tail[i - Len(m.head) - m.pad]

\* (variant: a feed that never runs out, it starts over after its last thread)
GmailSearchEndless(m, start, max) ==
  IF MailLen(m) = 0 THEN <<>>
  ELSE [i \in 1..max |-> ThreadAt(m, ((start + i - 1) % MailLen(m)) + 1)]

\* GmailApp.search(query, start, max): at most max threads from offset start
GmailSearch(m, start, max) ==
  LET left == IF MailLen(m) > start THEN MailLen(m) - start ELSE 0
  IN [i \in 1..Min(max, left) |-> ThreadAt(m, start + i)]

\* GmailApp.getMessagesForThreads(threads).flat(), as subjects
FlatMessages(threads) == Flat(threads)

\* (variant: a subject without a number gives an entry too, an empty one)
ExtractNewUnfiltered(msgs) ==
  [i \in 1..Len(msgs) |->
     IF MatchNewSubject(msgs[i]) = <<>> THEN EMPTY ELSE MatchNewSubject(msgs[i])[1]]

\* messages.forEach(m => { match = ...; if (match) push(match[1]) })
ExtractNew(msgs) == Flat([i \in 1..Len(msgs) |-> MatchNewSubject(msgs[i])])

ExtractSigned(msgs) == Flat([i \in 1..Len(msgs) |-> MatchSignedSubject(msgs[i])])

-----------------------------------------------------------------------------
(* The sheet behind SpreadsheetApp *)

\* sheet.getLastRow(): the sheet keeps the rows down to the last one with content
GetLastRow(sh) == Len(sh)

\* getTrueLastRow(sheet, 1): the last row whose column A is populated
GetTrueLastRow(sh) ==
  LET full == {i \in 1..Len(sh) : sh[i].a # EMPTY}
  IN IF full = {} THEN 0 ELSE CHOOSE i \in full : \A j \in full : j <= i

\* (variant: the new row written over the last row)
AppendRowOverLast(sh, number) ==
  IF Len(sh) <= 1 THEN Append(sh, [a |-> number, f |-> EMPTY])
  ELSE [sh EXCEPT ![Len(sh)] = [a |-> number, f |-> EMPTY]]

\* (variant: the new row inserted right below the header row)
AppendRowOnTop(sh, number) ==
  IF Len(sh) = 0 THEN <<[a |-> number, f |-> EMPTY]>>
  ELSE <<sh[1], [a |-> number, f |-> EMPTY]>> \o SubSeq(sh, 2, Len(sh))

\* (variant: an append that looks at the last row again and skips its number)
AppendRowIfAbsent(sh, number) ==
  IF Len(sh) >= 1 /\ sh[Len(sh)].a = number THEN sh
  ELSE Append(sh, [a |-> number, f |-> EMPTY])

\* sheet.appendRow([proposal.number, "", "", "", formattedDate])
AppendRow(sh, number) == Append(sh, [a |-> number, f |-> EMPTY])

\* sheet.getRange(row, 6).setValue("ok")
SetStatusOk(sh, row) ==
  IF row \in 1..Len(sh) THEN [sh EXCEPT ![row].f = OK]
  ELSE sh \o [i \in 1..(row - Len(sh)) |->
                IF i = row - Len(sh) THEN [a |-> EMPTY, f |-> OK]
                ELSE [a |-> EMPTY, f |-> EMPTY]]

-----------------------------------------------------------------------------
(* validateSheetEmail *)

\* The outcome of one call: it throws on a malformed header; otherwise it
\* returns without a value (undefined), after an alert when the emails differ.
ValidateSheetEmail(sh, currentUserEmail) ==
  LET headerValue == IF Len(sh) >= 1 THEN sh[1].a ELSE EMPTY
      emailMatch == MatchHeader(headerValue)
  IN IF emailMatch = <<>>
       THEN [thrown |-> TRUE, alerted |-> TRUE, value |-> "undefined"]
     ELSE IF emailMatch[1] # currentUserEmail
       THEN [thrown |-> FALSE, alerted |-> TRUE, value |-> "undefined"]
     ELSE [thrown |-> FALSE, alerted |-> FALSE, value |-> "undefined"]

\* JavaScript truthiness of the value validateSheetEmail returned
Truthy(v) == v \notin {"undefined", "false"}

\* the header names the session's account
HeaderValid(sh, currentUserEmail) ==
  /\ Len(sh) >= 1
  /\ MatchHeader(sh[1].a) = <<currentUserEmail>>

-----------------------------------------------------------------------------
(* processNewProposals: the pure steps *)

\* (variant: only the entry collected last is compared with the watermark)
SomeIsTargetLastOnly(all, target) ==
  Len(all) > 0 /\ ParseIntIs(all[Len(all)], target)

\* allProposals.some(p => parseInt(p.number, 10) === targetProposalNumber)
SomeIsTarget(all, target) == \E i \in 1..Len(all) : ParseIntIs(all[i], target)

\* allProposals.findIndex(...), 0-based, -1 when absent
FindTargetIndex(all, target) ==
  LET hits == {i \in 1..Len(all) : ParseIntIs(all[i], target)}
  IN IF hits = {} THEN -1 ELSE (CHOOSE i \in hits : \A j \in hits : i <= j) - 1

\* (variant: nothing is new when the watermark is absent)
NewerProposalsNoneIfAbsent(all, target) ==
  LET targetIndex == FindTargetIndex(all, target)
  IN IF targetIndex # -1 THEN SubSeq(all, 1, targetIndex) ELSE <<>>

\* (variant: no cut at the watermark)
NewerProposalsUncut(all, target) == all

\* (variant: the slice keeps the watermark entry)
NewerProposalsInclusive(all, target) ==
  LET targetIndex == FindTargetIndex(all, target)
  IN IF targetIndex # -1 THEN SubSeq(all, 1, targetIndex + 1) ELSE all

\* targetIndex !== -1 ? allProposals.slice(0, targetIndex) : allProposals
NewerProposals(all, target) ==
  LET targetIndex == FindTargetIndex(all, target)
  IN IF targetIndex # -1 THEN SubSeq(all, 1, targetIndex) ELSE all

\* (variant: the reversal left out)
AppendOrderUnreversed(newer) == newer

\* newerProposals.reverse(): the order of the appendRow calls
AppendOrder(newer) == Reverse(newer)

\* (variant: the watermark read from the first row below the header row)
LastProposalNumberFirstRow(sh, lastRow) ==
  ParseIntOrZero(sh[IF Len(sh) >= 2 THEN 2 ELSE 1].a)

\* parseInt(sheet.getRange(lastRow, 1).getValue().toString(), 10) || 0
\* (lines 62-63); getValue of a row below the last row gives the empty cell
LastProposalNumber(sh, lastRow) ==
  ParseIntOrZero(IF lastRow \in 1..Len(sh) THEN sh[lastRow].a ELSE EMPTY)

\* the watermark one invocation reads from a sheet nobody else writes to
\* (lines 56-67)
TargetProposalNumber(sh) ==
  IF GetLastRow(sh) > 0 THEN LastProposalNumber(sh, GetLastRow(sh)) ELSE 0

-----------------------------------------------------------------------------
(* processSignedProposals: the pure steps *)

\* the for loop's condition: startIndex < MAX_EMAILS_TO_PROCESS
LoopContinues(startIndex) == startIndex < MAX_EMAILS_TO_PROCESS

\* the first row of data whose column A, as text, equals the number; 0 if none
FirstRowOf(data, number) ==
  LET hits == {r \in 1..Len(data) : data[r].a = number}
  IN IF hits = {} THEN 0 ELSE CHOOSE r \in hits : \A q \in hits : r <= q

\* currentStatus !== "ok", read from the data fetched at the start of the run
NeedsUpdate(data, row) == data[row].f # OK

-----------------------------------------------------------------------------
(* State.                                                                    *)
(*   sheet        the active sheet (row 1 is the header row)                 *)
(*   user         Session.getActiveUser().getEmail()                         *)
(*   gmailNew     result list of GMAIL_SEARCH_QUERY                          *)
(*   gmailSigned  result list of GMAIL_SIGNED_SEARCH_QUERY                   *)
(*   inv[p]       the locals of invocation slot p, with its position pc      *)
(*   runs         invocations started so far                                 *)
(*   prev         summary of the invocation that ran before the current one  *)

Procs == {1}

SeqsUpTo(S, n) == UNION {[1..k -> S] : k \in 0..n}

Keys == {<<"0">>, <<"1">>, <<"1", "0">>}

Headers == {<<"C", " ", "-", " ", "a">>, <<"C", "-", "b">>, <<"C", " ", "a">>}

NewThreads ==
  {<<NewSubject(<<"0">>)>>, <<NewSubject(<<"1">>)>>, <<NoKeyNewSubject>>,
   <<NewSubject(<<"1", "0">>), NewSubject(<<"1">>)>>}

OldNewThreads == {<<NewSubject(<<"1", "0">>), NewSubject(<<"1">>)>>}

SignedThreads ==
  {<<SignedSubject(k)>> : k \in Keys \ {<<"0">>}}
    \cup {<<NoKeySignedSubject>>, <<NoKeySignedSubject, SignedSubject(<<"1", "0">>)>>}

OldSignedThreads == {<<SignedSubject(k)>> : k \in Keys \ {<<"0">>}}

Mailboxes(threads, old, filler, pads) ==
  {[head |-> h, pad |-> n, filler |-> filler, tail |-> t] :
     h \in SeqsUpTo(threads, MaxHead), n \in pads,
     t \in {<<>>} \cup {<<o>> : o \in old}}

ShortMailboxes(threads, filler) ==
  {[head |-> h, pad |-> 0, filler |-> filler, tail |-> <<>>] :
     h \in SeqsUpTo(threads, MaxHead)}

EmptyMailbox == [head |-> <<>>, pad |-> 0, filler |-> <<NoKeyNewSubject>>, tail |-> <<>>]

NewMailboxes ==
  Mailboxes(NewThreads, OldNewThreads, <<NoKeyNewSubject>>, {0, BATCH_SIZE - 1})

SignedMailboxes ==
  Mailboxes(SignedThreads, OldSignedThreads, <<NoKeySignedSubject>>,
            {0, EMAIL_CHUNK_SIZE - 1, MAX_EMAILS_TO_PROCESS})

Sheets(headers, cells, statuses) ==
  {<<[a |-> h, f |-> EMPTY]>> \o rows :
     h \in headers,
     rows \in SeqsUpTo([a : cells, f : statuses], MaxRows)}

\* the locals of an invocation that has not started
Fresh ==
  [op |-> "none", file |-> "none", pc |-> "idle",
   \* validateSheetEmail's result as the caller holds it
   isValidEmail |-> "undefined",
   \* processNewProposals
   lastRow |-> 0, target |-> 0, all |-> <<>>, start |-> 0, totalEmails |-> 0,
   todo |-> <<>>, added |-> 0,
   \* processSignedProposals
   data |-> <<>>, startIndex |-> 0, signed |-> <<>>, si |-> 0,
   chunkUpdated |-> 0, totalUpdated |-> 0, allUpdated |-> <<>>,
   totalChunks |-> 0,
   \* history of the invocation
   validation |-> "none", fetches |-> 0, sheet0 |-> <<>>]

NoPrev == [op |-> "none", pc |-> "idle", totalUpdated |-> 0, added |-> 0]

Summary(l) == [op |-> l.op, pc |-> l.pc, totalUpdated |-> l.totalUpdated,
               added |-> l.added]

Ended(l) == l.pc \in {"idle", "done", "thrown", "aborted"}

\* the menu runs one function at a time
CanStart(p) ==
  /\ runs < MaxRuns
  /\ \A q \in Procs : Ended(inv[q])

Begin(p, l) ==
  /\ inv' = [inv EXCEPT ![p] = l]
  /\ runs' = runs + 1
  /\ prev' = Summary(inv[p])

ValidationOutcome(sh, u) ==
  IF ValidateSheetEmail(sh, u).thrown THEN "thrown"
  ELSE IF ValidateSheetEmail(sh, u).alerted THEN "mismatch" ELSE "passed"

-----------------------------------------------------------------------------
(* validateSheetEmail as the two menu functions call it                      *)

\* where the caller goes on when validateSheetEmail has returned:
\* processNewProposals drops the result (part_003 line 50),
\* processSignedProposals returns unless it is truthy (part_001 lines 50-56)
AfterValidation(l) ==
  IF l.op = "new" THEN "lastrow"
  ELSE IF ~Truthy(l.isValidEmail) THEN "done" ELSE "read"

\* validateEmail.ts lines 29-65: the header cell and the session's account are
\* read and compared; the function then waits in ui.alert, or returns
Validated(l) ==
  LET v == ValidateSheetEmail(sheet, user)
      c == [l EXCEPT !.sheet0 = sheet,
                     !.validation = ValidationOutcome(sheet, user),
                     !.isValidEmail = v.value]
  IN [c EXCEPT !.pc = IF v.alerted THEN "alert" ELSE AfterValidation(c)]

\* validateEmail.ts lines 51-54 and 70-72: the alert is dismissed; the
\* function throws after the alert of a malformed header, returns after the
\* alert of a header that names another account
AlertClosed(p) ==
  /\ inv[p].pc = "alert"
  /\ inv' = [inv EXCEPT ![p].pc =
       IF inv[p].validation = "thrown" THEN "thrown" ELSE AfterValidation(inv[p])]
  /\ UNCHANGED <<sheet, user, gmailNew, gmailSigned, runs, prev>>

-----------------------------------------------------------------------------
(* processNewProposals (src/unnamed/part_003, and src/src/Code.ts)           *)

\* part_003 lines 46-50: the function starts with validateSheetEmail
NewStart(p) ==
  /\ CanStart(p)
  /\ Begin(p, Validated([Fresh EXCEPT !.op = "new", !.file = "part_003"]))
  /\ UNCHANGED <<sheet, user, gmailNew, gmailSigned>>

\* Code.ts lines 35-40: the processNewProposals of the menu "Controle de
\* Email" (Code.ts lines 10-15) starts without validateSheetEmail
OlderNewStart(p) ==
  /\ CanStart(p)
  /\ Begin(p, [Fresh EXCEPT !.op = "new", !.file = "Code", !.sheet0 = sheet,
                            !.pc = "lastrow"])
  /\ UNCHANGED <<sheet, user, gmailNew, gmailSigned>>

\* part_003 lines 57-60, Code.ts lines 43-46: sheet.getLastRow()
NewLastRow(p) ==
  /\ inv[p].op = "new" /\ inv[p].pc = "lastrow"
  /\ LET lastRow == GetLastRow(sheet)
     IN inv' = [inv EXCEPT ![p] =
          [inv[p] EXCEPT !.lastRow = lastRow,
                         !.pc = IF lastRow > 0 THEN "target" ELSE "fetch"]]
  /\ UNCHANGED <<sheet, user, gmailNew, gmailSigned, runs, prev>>

\* part_003 lines 62-72, Code.ts lines 47-56: read the watermark from the row
\* getLastRow gave, initialise the batch loop
NewTarget(p) ==
  /\ inv[p].op = "new" /\ inv[p].pc = "target"
  /\ inv' = [inv EXCEPT ![p] =
       [inv[p] EXCEPT !.target = LastProposalNumber(sheet, inv[p].lastRow),
                      !.pc = "fetch"]]
  /\ UNCHANGED <<sheet, user, gmailNew, gmailSigned, runs, prev>>

\* (variant: each iteration appends the first number of its page at once)
NewFetchEager(p) ==
  /\ inv[p].op = "new" /\ inv[p].pc = "fetch"
  /\ LET l == inv[p]
         threads == GmailSearch(gmailNew, l.start, BATCH_SIZE)
         messages == FlatMessages(threads)
         page == ExtractNew(messages)
         all == l.all \o page
     IN /\ sheet' = IF Len(page) > 0 THEN AppendRow(sheet, page[1]) ELSE sheet
        /\ IF Len(threads) = 0
             THEN inv' = [inv EXCEPT ![p] =
                    [l EXCEPT !.fetches = @ + 1, !.pc = "select"]]
           ELSE IF SomeIsTarget(all, l.target)
             THEN inv' = [inv EXCEPT ![p] =
                    [l EXCEPT !.fetches = @ + 1, !.all = all,
                              !.totalEmails = @ + Len(messages), !.pc = "select"]]
           ELSE inv' = [inv EXCEPT ![p] =
                    [l EXCEPT !.fetches = @ + 1, !.all = all,
                              !.totalEmails = @ + Len(messages),
                              !.start = @ + BATCH_SIZE]]
  /\ UNCHANGED <<user, gmailNew, gmailSigned, runs, prev>>

\* part_003 lines 75-110, Code.ts lines 59-86: one iteration of the batch loop
NewFetch(p) ==
  /\ inv[p].op = "new" /\ inv[p].pc = "fetch"
  /\ LET l == inv[p]
         threads == GmailSearch(gmailNew, l.start, BATCH_SIZE)
         messages == FlatMessages(threads)
         all == l.all \o ExtractNew(messages)
     IN IF Len(threads) = 0
          THEN inv' = [inv EXCEPT ![p] =
                 [l EXCEPT !.fetches = @ + 1, !.pc = "select"]]
        ELSE IF SomeIsTarget(all, l.target)
          THEN inv' = [inv EXCEPT ![p] =
                 [l EXCEPT !.fetches = @ + 1, !.all = all,
                           !.totalEmails = @ + Len(messages), !.pc = "select"]]
        ELSE inv' = [inv EXCEPT ![p] =
                 [l EXCEPT !.fetches = @ + 1, !.all = all,
                           !.totalEmails = @ + Len(messages),
                           !.start = @ + BATCH_SIZE]]
  /\ UNCHANGED <<sheet, user, gmailNew, gmailSigned, runs, prev>>

\* targetIndex === -1: newerProposals is the array allProposals itself
\* (part_003 line 119, Code.ts line 95), not a slice of it
Aliased(l) == FindTargetIndex(l.all, l.target) = -1

\* part_003 lines 112-127, Code.ts lines 88-102: cut the collected proposals at
\* the watermark and reverse them in place; the reversal reverses allProposals
\* too when newerProposals is that array
NewSelect(p) ==
  /\ inv[p].op = "new" /\ inv[p].pc = "select"
  /\ LET l == inv[p]
         newerProposals == NewerProposals(l.all, l.target)
     IN IF Len(newerProposals) > 0
          THEN inv' = [inv EXCEPT ![p] =
                 [l EXCEPT !.todo = AppendOrder(newerProposals),
                           !.all = IF Aliased(l) THEN AppendOrder(newerProposals)
                                   ELSE @,
                           !.pc = "append"]]
          ELSE inv' = [inv EXCEPT ![p] = [l EXCEPT !.pc = "done"]]
  /\ UNCHANGED <<sheet, user, gmailNew, gmailSigned, runs, prev>>

\* part_003 lines 127-131, Code.ts lines 102-107: one appendRow of the forEach.
\* todo is newerProposals as reverse() left it.  After the last appendRow
\* Code.ts reverses newerProposals in place once more (line 107), and with it
\* allProposals when newerProposals is that array; part_003 reverses a copy
\* (lines 135-138)
NewAppend(p) ==
  /\ inv[p].op = "new" /\ inv[p].pc = "append"
  /\ LET l == inv[p]
         last == l.added + 1 = Len(l.todo)
     IN /\ sheet' = AppendRow(sheet, l.todo[l.added + 1])
        /\ inv' = [inv EXCEPT ![p] =
             [l EXCEPT !.added = @ + 1,
                       !.todo = IF last /\ l.file = "Code" THEN Reverse(@) ELSE @,
                       !.all = IF last /\ l.file = "Code" /\ Aliased(l)
                               THEN Reverse(@) ELSE @,
                       !.pc = IF last THEN "done" ELSE "append"]]
  /\ UNCHANGED <<user, gmailNew, gmailSigned, runs, prev>>

-----------------------------------------------------------------------------
(* processSignedProposals (src/unnamed/part_001)                             *)

\* lines 46-50: the function starts with validateSheetEmail and keeps what it
\* returns; lines 53-56 (AfterValidation) return unless that value is truthy.
\* validateSheetEmail returns no value on any path, so every invocation ends
\* there and the steps of lines 58-173 below are never taken: they are the
\* function's text behind the guard and stand in no specification.
SignedStart(p) ==
  /\ CanStart(p)
  /\ Begin(p, Validated([Fresh EXCEPT !.op = "signed", !.file = "part_001"]))
  /\ UNCHANGED <<sheet, user, gmailNew, gmailSigned>>

\* lines 58-81: read the rows once, initialise the chunk loop
SignedRead(p) ==
  /\ inv[p].op = "signed" /\ inv[p].pc = "read"
  /\ LET l == inv[p]
         lastRow == GetTrueLastRow(sheet)
     IN IF lastRow = 0
          THEN inv' = [inv EXCEPT ![p] = [l EXCEPT !.pc = "done"]]
          ELSE inv' = [inv EXCEPT ![p] =
                 [l EXCEPT !.data = SubSeq(sheet, 1, lastRow),
                           !.startIndex = 0,
                           !.pc = IF LoopContinues(0) THEN "sfetch" ELSE "done"]]
  /\ UNCHANGED <<sheet, user, gmailNew, gmailSigned, runs, prev>>

\* where the for loop goes after a chunk: startIndex += EMAIL_CHUNK_SIZE, test
NextChunk(l) ==
  [l EXCEPT !.startIndex = @ + EMAIL_CHUNK_SIZE,
            !.pc = IF LoopContinues(l.startIndex + EMAIL_CHUNK_SIZE)
                   THEN "sfetch" ELSE "done"]

\* lines 82-129: fetch one chunk and extract its proposal numbers
SignedFetch(p) ==
  /\ inv[p].op = "signed" /\ inv[p].pc = "sfetch"
  /\ LET l == inv[p]
         chunkSize == Min(EMAIL_CHUNK_SIZE, MAX_EMAILS_TO_PROCESS - l.startIndex)
         threads == GmailSearch(gmailSigned, l.startIndex, chunkSize)
         flatMessages == FlatMessages(threads)
         signedProposals == ExtractSigned(flatMessages)
         f == [l EXCEPT !.fetches = @ + 1]
     IN IF Len(threads) = 0
          THEN inv' = [inv EXCEPT ![p] = [f EXCEPT !.pc = "done"]]
        ELSE IF Len(signedProposals) = 0
          THEN inv' = [inv EXCEPT ![p] =
                 NextChunk([f EXCEPT !.totalEmails = @ + Len(flatMessages),
                                     !.signed = signedProposals,
                                     !.totalChunks = @ + 1])]
        ELSE inv' = [inv EXCEPT ![p] =
                 [f EXCEPT !.totalEmails = @ + Len(flatMessages),
                           !.signed = signedProposals, !.si = 1,
                           !.chunkUpdated = 0, !.pc = "mark"]]
  /\ UNCHANGED <<sheet, user, gmailNew, gmailSigned, runs, prev>>

\* lines 136-159: one iteration of signedProposals.forEach
SignedMark(p) ==
  /\ inv[p].op = "signed" /\ inv[p].pc = "mark"
  /\ inv[p].si <= Len(inv[p].signed)
  /\ LET l == inv[p]
         number == l.signed[l.si]
         row == FirstRowOf(l.data, number)
     IN IF row # 0 /\ NeedsUpdate(l.data, row)
          THEN /\ sheet' = SetStatusOk(sheet, row)
               /\ inv' = [inv EXCEPT ![p] =
                    [l EXCEPT !.si = @ + 1, !.chunkUpdated = @ + 1,
                              !.totalUpdated = @ + 1,
                              !.allUpdated = Append(@, number)]]
          ELSE /\ sheet' = sheet
               /\ inv' = [inv EXCEPT ![p] = [l EXCEPT !.si = @ + 1]]
  /\ UNCHANGED <<user, gmailNew, gmailSigned, runs, prev>>

\* lines 161-173: close the chunk; stop early when it updated nothing
SignedChunkEnd(p) ==
  /\ inv[p].op = "signed" /\ inv[p].pc = "mark"
  /\ inv[p].si > Len(inv[p].signed)
  /\ LET l == [inv[p] EXCEPT !.totalChunks = @ + 1]
     IN IF l.chunkUpdated = 0 /\ Len(l.signed) > 0
          THEN inv' = [inv EXCEPT ![p] = [l EXCEPT !.pc = "done"]]
          ELSE inv' = [inv EXCEPT ![p] = NextChunk(l)]
  /\ UNCHANGED <<sheet, user, gmailNew, gmailSigned, runs, prev>>

-----------------------------------------------------------------------------
(* A GmailApp.search or a sheet.appendRow throws: the exception is not       *)
(* caught, the invocation ends where it is and what it wrote stays written.  *)

\* (variant: the writes of the invocation are undone when it fails)
FailWithRollback(p) ==
  /\ inv[p].pc \in {"fetch", "append"}
  /\ inv' = [inv EXCEPT ![p].pc = "aborted"]
  /\ sheet' = inv[p].sheet0
  /\ UNCHANGED <<user, gmailNew, gmailSigned, runs, prev>>

Fail(p) ==
  /\ inv[p].pc \in {"fetch", "append"}
  /\ inv' = [inv EXCEPT ![p].pc = "aborted"]
  /\ UNCHANGED <<sheet, user, gmailNew, gmailSigned, runs, prev>>

-----------------------------------------------------------------------------
(* Specifications *)

InitLocals ==
  /\ user = <<"a">>
  /\ inv = [p \in Procs |-> Fresh]
  /\ runs = 0
  /\ prev = NoPrev

\* the program as written: the menu functions of the three menus, on every
\* kind of header
Init ==
  /\ InitLocals
  /\ sheet \in Sheets(Headers, {<<"1">>, <<"1", "0">>}, {EMPTY})
  /\ gmailNew \in NewMailboxes
  /\ gmailSigned = EmptyMailbox

Next ==
  \E p \in Procs :
    \/ NewStart(p)
    \/ OlderNewStart(p)
    \/ AlertClosed(p)
    \/ NewLastRow(p)
    \/ NewTarget(p)
    \/ NewFetch(p)
    \/ NewSelect(p)
    \/ NewAppend(p)
    \/ SignedStart(p)

Spec == Init /\ [][Next]_vars

\* processSignedProposals alone, on every kind of header, rows with and
\* without "ok", and mailboxes of signed-contract threads
ScanInit ==
  /\ InitLocals
  /\ sheet \in Sheets(Headers, {<<"1">>, <<"1", "0">>}, {EMPTY, OK})
  /\ gmailNew = EmptyMailbox
  /\ gmailSigned \in SignedMailboxes

ScanNext ==
  \E p \in Procs :
    \/ SignedStart(p)
    \/ AlertClosed(p)

ScanSpec == ScanInit /\ [][ScanNext]_vars

\* both operations on a sheet of the session's account (no alert is shown)
\* whose rows may be "ok"
EngineInit ==
  /\ InitLocals
  /\ sheet \in Sheets({<<"C", " ", "-", " ", "a">>},
                      {<<"1">>, <<"1", "0">>}, {EMPTY, OK})
  /\ gmailNew \in ShortMailboxes({<<NewSubject(<<"1">>)>>, <<NewSubject(<<"1", "0">>)>>,
                                   <<NoKeyNewSubject>>}, <<NoKeyNewSubject>>)
  /\ gmailSigned \in ShortMailboxes(OldSignedThreads, <<NoKeySignedSubject>>)

EngineNext ==
  \E p \in Procs :
    \/ NewStart(p)
    \/ OlderNewStart(p)
    \/ NewLastRow(p)
    \/ NewTarget(p)
    \/ NewFetch(p)
    \/ NewSelect(p)
    \/ NewAppend(p)
    \/ SignedStart(p)

EngineSpec == EngineInit /\ [][EngineNext]_vars

\* mailboxes that hold more threads than MAX_EMAILS_TO_PROCESS: each operation
\* on a long feed, the other feed empty
LongNewMailboxes ==
  Mailboxes({<<NewSubject(<<"1">>)>>, <<NoKeyNewSubject>>}, {<<NewSubject(<<"1">>)>>},
            <<NoKeyNewSubject>>, {BATCH_SIZE, 2 * BATCH_SIZE})

LongSignedMailboxes ==
  Mailboxes({<<SignedSubject(<<"1">>)>>, <<NoKeySignedSubject>>},
            {<<SignedSubject(<<"1">>)>>}, <<NoKeySignedSubject>>,
            {EMAIL_CHUNK_SIZE, MAX_EMAILS_TO_PROCESS})

LongFeedInit ==
  /\ InitLocals
  /\ sheet \in Sheets({<<"C", " ", "-", " ", "a">>},
                      {<<"1">>, <<"1", "0">>}, {EMPTY})
  /\ \/ gmailNew \in LongNewMailboxes /\ gmailSigned = EmptyMailbox
     \/ gmailNew = EmptyMailbox /\ gmailSigned \in LongSignedMailboxes

\* the search step, capped at MaxFetches searches in one invocation
LongFeedFetch ==
  \E p \in Procs : inv[p].fetches < MaxFetches /\ NewFetch(p)

\* the other steps of a started invocation
LongFeedStep ==
  \E p \in Procs :
    \/ NewLastRow(p)
    \/ NewTarget(p)
    \/ NewSelect(p)
    \/ NewAppend(p)

LongFeedNext ==
  \/ \E p \in Procs : NewStart(p) \/ OlderNewStart(p) \/ SignedStart(p)
  \/ LongFeedFetch
  \/ LongFeedStep

\* ENABLED <<LongFeedFetch>>_vars, written out: a search step is enabled, and
\* changes the state, exactly when an invocation stands before a search
FetchPending ==
  \E p \in Procs : inv[p].pc = "fetch" /\ inv[p].fetches < MaxFetches

\* Apps Script runs a started function to its end without waiting: weak
\* fairness of every step of a started invocation.  For the search step the
\* fairness condition is stated with FetchPending in the place of ENABLED.
LongFeedFairness ==
  /\ WF_vars(LongFeedStep)
  /\ (<>[]FetchPending) => ([]<><<LongFeedFetch>>_vars)

LongFeedSpec == LongFeedInit /\ [][LongFeedNext]_vars /\ LongFeedFairness

\* both operations with searches and appends that can fail
FaultInit ==
  /\ InitLocals
  /\ sheet \in Sheets({<<"C", " ", "-", " ", "a">>}, {<<"1">>}, {EMPTY})
  /\ gmailNew \in ShortMailboxes({<<NewSubject(<<"1">>)>>, <<NewSubject(<<"1", "0">>)>>},
                                  <<NoKeyNewSubject>>)
  /\ gmailSigned \in ShortMailboxes({<<SignedSubject(<<"1">>)>>}, <<NoKeySignedSubject>>)

FaultNext ==
  \E p \in Procs :
    \/ NewStart(p)
    \/ OlderNewStart(p)
    \/ NewLastRow(p)
    \/ NewTarget(p)
    \/ NewFetch(p)
    \/ NewSelect(p)
    \/ NewAppend(p)
    \/ SignedStart(p)
    \/ Fail(p)

FaultSpec == FaultInit /\ [][FaultNext]_vars

\* Two invocations at once on one sheet.  The scripts take no lock
\* (no LockService): a menu function can be started, by a second user of the
\* spreadsheet, while another invocation is between two of its calls.
Slots == {1, 2}

CanStartConcurrently(p) ==
  /\ runs < MaxRuns
  /\ Ended(inv[p])

\* processNewProposals of part_003, started whatever the other slot does
ConcurrentNewStart(p) ==
  /\ CanStartConcurrently(p)
  /\ Begin(p, Validated([Fresh EXCEPT !.op = "new", !.file = "part_003"]))
  /\ UNCHANGED <<sheet, user, gmailNew, gmailSigned>>

\* processNewProposals of Code.ts, started whatever the other slot does
ConcurrentOlderNewStart(p) ==
  /\ CanStartConcurrently(p)
  /\ Begin(p, [Fresh EXCEPT !.op = "new", !.file = "Code", !.sheet0 = sheet,
                            !.pc = "lastrow"])
  /\ UNCHANGED <<sheet, user, gmailNew, gmailSigned>>

\* processSignedProposals, started whatever the other slot does
ConcurrentSignedStart(p) ==
  /\ CanStartConcurrently(p)
  /\ Begin(p, Validated([Fresh EXCEPT !.op = "signed", !.file = "part_001"]))
  /\ UNCHANGED <<sheet, user, gmailNew, gmailSigned>>

ConcurrentInit ==
  /\ user = <<"a">>
  /\ inv = [p \in Slots |-> Fresh]
  /\ runs = 0
  /\ prev = NoPrev
  /\ sheet \in Sheets({<<"C", " ", "-", " ", "a">>}, {<<"1">>}, {EMPTY, OK})
  /\ gmailNew \in ShortMailboxes({<<NewSubject(<<"1">>)>>, <<NewSubject(<<"1", "0">>)>>},
                                  <<NoKeyNewSubject>>)
  /\ gmailSigned \in ShortMailboxes({<<SignedSubject(<<"1">>)>>}, <<NoKeySignedSubject>>)

ConcurrentNext ==
  \E p \in Slots :
    \/ ConcurrentNewStart(p)
    \/ ConcurrentOlderNewStart(p)
    \/ NewLastRow(p)
    \/ NewTarget(p)
    \/ NewFetch(p)
    \/ NewSelect(p)
    \/ NewAppend(p)
    \/ ConcurrentSignedStart(p)

ConcurrentSpec == ConcurrentInit /\ [][ConcurrentNext]_vars

-----------------------------------------------------------------------------
(* Properties of processNewProposals *)

\* every proposal number of the mailbox, in the order GmailApp.search lists it
FeedKeys(m) == ExtractNew(FlatMessages(GmailSearch(m, 0, MailLen(m))))

\* position in FeedKeys of the first entry that equals the watermark (0: none)
WatermarkPos(m, w) ==
  LET keys == FeedKeys(m)
      hits == {i \in 1..Len(keys) : ParseIntIs(keys[i], w)}
  IN IF hits = {} THEN 0 ELSE CHOOSE i \in hits : \A j \in hits : i <= j

\* column A of the rows the invocation has added below the rows it found
AppendedKeys(l) ==
  [i \in 1..(Len(sheet) - Len(l.sheet0)) |-> sheet[Len(l.sheet0) + i].a]

IngestDone(l) == l.op = "new" /\ l.pc = "done"

\* C1 (ordering correction): when processNewProposals has finished, the rows
\* it appended are, top to bottom, the newest n proposal numbers of the feed
\* in the reverse of feed order (k_n .. k_1): oldest first.
C1_OrderingCorrection ==
  \A p \in Procs :
    IngestDone(inv[p]) =>
      LET keys == FeedKeys(gmailNew)
          app == AppendedKeys(inv[p])
          n == Len(app)
      IN /\ n <= Len(keys)
         /\ \A i \in 1..n : app[i] = keys[n + 1 - i]

C1_Witness ==
  \E p \in Procs :
    /\ IngestDone(inv[p])
    /\ Len(AppendedKeys(inv[p])) >= 2
    /\ AppendedKeys(inv[p])[1] # AppendedKeys(inv[p])[2]

\* C2 (watermark cutoff): when the last row's number w occurs in the feed,
\* first at position m+1, a finished processNewProposals has appended exactly
\* k_m .. k_1 and nothing from that position on, on whichever page w lies.
C2_WatermarkCutoff ==
  \A p \in Procs :
    LET l == inv[p]
        m == WatermarkPos(gmailNew, TargetProposalNumber(l.sheet0)) - 1
    IN (IngestDone(l) /\ m >= 0) =>
         AppendedKeys(l) = Reverse(SubSeq(FeedKeys(gmailNew), 1, m))

C2_Witness ==
  \E p \in Procs :
    LET l == inv[p]
        m == WatermarkPos(gmailNew, TargetProposalNumber(l.sheet0)) - 1
    IN /\ IngestDone(l)
       /\ m >= 1
       /\ l.start >= BATCH_SIZE
       /\ Len(AppendedKeys(l)) = m
       /\ Len(FeedKeys(gmailNew)) > m + 1

\* C3: at every point of a processNewProposals invocation, no row it has
\* appended carries the watermark, and each comes from a feed position
\* before the first watermark entry.
C3_NothingAtOrBeyondWatermark ==
  \A p \in Procs :
    LET l == inv[p]
        keys == FeedKeys(gmailNew)
        pos == WatermarkPos(gmailNew, l.target)
        app == AppendedKeys(l)
    IN (l.op = "new" /\ l.pc \in {"append", "done"}) =>
         /\ \A i \in 1..Len(app) : ~ParseIntIs(app[i], l.target)
         /\ pos # 0 =>
              /\ Len(app) <= pos - 1
              /\ \A i \in 1..Len(app) : \E j \in 1..(pos - 1) : keys[j] = app[i]

C3_Witness ==
  \E p \in Procs :
    LET l == inv[p]
    IN /\ IngestDone(l)
       /\ WatermarkPos(gmailNew, l.target) >= 2
       /\ Len(AppendedKeys(l)) >= 1
       /\ Len(l.sheet0) >= 2

-----------------------------------------------------------------------------
(* Properties of the validation guard *)

\* C7: a processSignedProposals invocation whose sheet header names the
\* session's account goes on behind the guard to read the rows.
C7_ValidHeaderProceeds ==
  \A p \in Procs :
    (inv[p].op = "signed" /\ HeaderValid(inv[p].sheet0, user)) =>
       inv[p].pc \notin {"done", "thrown"} \/ inv[p].data # <<>>

\* C8: an invocation whose sheet header is malformed or names another
\* account searches no mail and leaves the sheet as it found it.
C8_NoRunOnUnvalidatedSheet ==
  \A p \in Procs :
    (inv[p].op \in {"new", "signed"} /\ ~HeaderValid(inv[p].sheet0, user)) =>
       inv[p].fetches = 0 /\ sheet = inv[p].sheet0

-----------------------------------------------------------------------------
(* Properties of processSignedProposals *)

Occurrences(seq, x) == Cardinality({i \in 1..Len(seq) : seq[i] = x})

CeilDiv(a, b) == (a + b - 1) \div b

\* the proposal numbers in the subjects of the first EMAIL_CHUNK_SIZE threads
FirstChunkKeys(m) ==
  ExtractSigned(FlatMessages(GmailSearch(m, 0, EMAIL_CHUNK_SIZE)))

\* C5 (monotonic completion): no step of either operation takes a row's
\* status away from "ok".
C5_CompletionIsMonotonic ==
  [][\A i \in 1..Len(sheet) :
       sheet[i].f = OK => (i <= Len(sheet') /\ sheet'[i].f = OK)]_vars

C5_Witness ==
  \E p \in Procs :
    /\ inv[p].op = "new" /\ inv[p].pc = "done" /\ inv[p].added >= 1
    /\ prev.op = "signed" /\ prev.pc = "done"
    /\ Len(inv[p].sheet0) >= 2
    /\ sheet[Len(inv[p].sheet0)].f = OK

\* C6 (Scenario C): when processSignedProposals has finished on a sheet of
\* the session's account, every row that is the first to carry a number of a
\* message among the first EMAIL_CHUNK_SIZE threads, and was not "ok" before,
\* is "ok" and is reported as exactly one update.
C6_MatchedRowMarkedAndReportedOnce ==
  \A p \in Procs :
    LET l == inv[p]
        keys == FirstChunkKeys(gmailSigned)
    IN (l.op = "signed" /\ l.pc = "done" /\ HeaderValid(l.sheet0, user)) =>
         \A i \in 1..Len(keys) :
           LET r == FirstRowOf(l.sheet0, keys[i])
           IN (r # 0 /\ l.sheet0[r].f # OK) =>
                /\ sheet[r].f = OK
                /\ Occurrences(l.allUpdated, keys[i]) = 1

-----------------------------------------------------------------------------
(* Bounds of the work of one invocation *)

\* C11 (bounded work of ingestion): one processNewProposals invocation issues
\* at most ceil(maxEvents / pageSize) searches, with the repository's ceiling
\* MAX_EMAILS_TO_PROCESS as maxEvents and BATCH_SIZE as pageSize, and never
\* searches again once it has counted maxEvents messages.
C11_IngestFetchesBounded ==
  \A p \in Procs :
    inv[p].op = "new" =>
      /\ inv[p].fetches <= CeilDiv(MAX_EMAILS_TO_PROCESS, BATCH_SIZE)
      /\ ~(inv[p].pc = "fetch" /\ inv[p].totalEmails >= MAX_EMAILS_TO_PROCESS)

\* C12 (termination): every started invocation of either operation comes to
\* its end, whether or not the watermark is in the feed and however long the
\* feed is.
C12_EveryInvocationTerminates ==
  \A p \in Procs : (~Ended(inv[p])) ~> Ended(inv[p])

C12_Witness ==
  \E p \in Procs :
    /\ IngestDone(inv[p])
    /\ ~SomeIsTarget(inv[p].all, inv[p].target)
    /\ inv[p].totalEmails > MAX_EMAILS_TO_PROCESS
    /\ inv[p].fetches = 4
    /\ inv[p].added >= 1
    /\ prev.op = "signed" /\ prev.pc = "done"

-----------------------------------------------------------------------------
(* Frame conditions *)

\* how many of the subjects are of the kind that carries no proposal number
Unmatched(msgs) ==
  Cardinality({i \in 1..Len(msgs) : msgs[i] \in {NoKeyNewSubject, NoKeySignedSubject}})

\* every message of the mailbox, in the order GmailApp.search lists the threads
AllMessages(m) == FlatMessages(GmailSearch(m, 0, MailLen(m)))

\* C14 (no-data condition): an invocation on a mailbox that holds no message,
\* or only messages whose subject carries no proposal number, and a
\* processSignedProposals on a sheet with no row below the header, leave the
\* sheet exactly as they found it and report nothing added or updated.
C14_NoDataLeavesSheetUntouched ==
  \A p \in Procs :
    LET l == inv[p]
        msgs == AllMessages(IF l.op = "new" THEN gmailNew ELSE gmailSigned)
    IN l.op \in {"new", "signed"} =>
         /\ Unmatched(msgs) = Len(msgs) =>
              (sheet = l.sheet0 /\ l.added = 0 /\ l.totalUpdated = 0)
         /\ (l.op = "signed" /\ Len(l.sheet0) = 1) =>
              (sheet = l.sheet0 /\ l.totalUpdated = 0)

C14_Witness ==
  \E p \in Procs :
    /\ IngestDone(inv[p])
    /\ inv[p].fetches >= 2
    /\ inv[p].totalEmails >= 2
    /\ Unmatched(AllMessages(gmailNew)) = inv[p].totalEmails
    /\ Len(inv[p].sheet0) >= 2
    /\ prev.op = "signed" /\ prev.pc = "done"

\* C15 (only new proposals are added): no number appended by a
\* processNewProposals invocation on a validated sheet equals the number of a
\* row the sheet held before the invocation.
C15_AppendsOnlyNewNumbers ==
  \A p \in Procs :
    LET l == inv[p]
        app == AppendedKeys(l)
    IN (l.op = "new" /\ HeaderValid(l.sheet0, user)) =>
         \A i \in 1..Len(app) : \A r \in 2..Len(l.sheet0) : app[i] # l.sheet0[r].a

-----------------------------------------------------------------------------
(* Two invocations at once *)

\* the rows below the first n rows, column A
KeysBelow(n) == [i \in 1..(Len(sheet) - n) |-> sheet[n + i].a]

\* C16 (no isolation): two processNewProposals invocations for which
\* getLastRow gave the same row, so that neither had appended when the other
\* read, both act on what they read: when both have finished they hold the
\* same watermark and the same new numbers (in the order their file leaves
\* newerProposals in), and every one of these numbers stands twice below the
\* row they read.
C16_BothActOnTheSameRead ==
  \A p, q \in Slots :
    (/\ p # q
     /\ IngestDone(inv[p]) /\ IngestDone(inv[q])
     /\ inv[p].lastRow = inv[q].lastRow) =>
       /\ inv[p].target = inv[q].target
       /\ inv[p].todo = IF inv[p].file = inv[q].file THEN inv[q].todo
                        ELSE Reverse(inv[q].todo)
       /\ \A i \in 1..Len(inv[p].todo) :
            Occurrences(KeysBelow(inv[p].lastRow), inv[p].todo[i])
              = 2 * Occurrences(inv[p].todo, inv[p].todo[i])

C16_Witness ==
  /\ IngestDone(inv[1]) /\ IngestDone(inv[2])
  /\ inv[1].lastRow = inv[2].lastRow
  /\ inv[1].lastRow >= 2
  /\ inv[1].sheet0 = inv[2].sheet0
  /\ inv[1].file # inv[2].file
  /\ inv[1].added >= 1 /\ inv[2].added >= 1
  /\ \E i, j \in (inv[1].lastRow + 1)..Len(sheet) : i < j /\ sheet[i].a = sheet[j].a

-----------------------------------------------------------------------------
(* Failures *)

\* the rows processNewProposals appends for the numbers ks
NewRows(ks) == [i \in 1..Len(ks) |-> [a |-> ks[i], f |-> EMPTY]]

\* the new numbers of the mailbox for a sheet, oldest first
NewSuffix(sh) ==
  Reverse(NewerProposals(FeedKeys(gmailNew), TargetProposalNumber(sh)))

\* C17 (no rollback): when a failed search or appendRow has ended a
\* processNewProposals, what it wrote before stays: the sheet is the sheet it
\* found followed by the first `added` of the new numbers, oldest first.
C17_NoRollbackOnFailure ==
  \A p \in Procs :
    LET l == inv[p]
    IN (l.op = "new" /\ l.pc = "aborted") =>
         /\ l.added <= Len(NewSuffix(l.sheet0))
         /\ sheet = l.sheet0 \o NewRows(SubSeq(NewSuffix(l.sheet0), 1, l.added))

C17_Witness ==
  \E p \in Procs :
    /\ inv[p].op = "new" /\ inv[p].pc = "aborted"
    /\ inv[p].added >= 1
    /\ inv[p].added < Len(inv[p].todo)
    /\ Len(inv[p].sheet0) >= 2
    /\ prev.op = "new" /\ prev.pc = "aborted" /\ prev.added = 0

-----------------------------------------------------------------------------
(* The watermark of an empty ledger *)

\* C19: on a sheet with no row below the header the watermark is 0, it equals
\* none of the collected numbers, and a finished processNewProposals has
\* appended every number of the feed.
C19_EmptyLedgerAppendsEverything ==
  \A p \in Procs :
    LET l == inv[p]
    IN (IngestDone(l) /\ Len(l.sheet0) = 1 /\ HeaderValid(l.sheet0, user)) =>
         /\ l.target = 0
         /\ ~SomeIsTarget(l.all, l.target)
         /\ AppendedKeys(l) = Reverse(FeedKeys(gmailNew))

-----------------------------------------------------------------------------
(* Subjects that do not match *)

\* the number of threads the searches of the invocation have returned so far
FetchedThreads(l, m) ==
  IF l.fetches = 0 THEN 0
  ELSE IF l.pc = "fetch" THEN Min(MailLen(m), l.start)
  ELSE IF SomeIsTarget(l.all, l.target) THEN Min(MailLen(m), l.start + BATCH_SIZE)
  ELSE MailLen(m)

\* C20 (Scenario D): a message whose subject does not match the pattern is
\* counted in the total of processed messages and gives no proposal number:
\* the numbers collected are as many as the other messages fetched, the counts
\* of appended and updated rows never exceed them, and an invocation that has
\* fetched only such messages has written nothing.
C20_UnmatchedSubjectsCountedNotKeyed ==
  \A p \in Procs :
    LET l == inv[p]
        m == IF l.op = "new" THEN gmailNew ELSE gmailSigned
        msgs == FlatMessages(GmailSearch(m, 0, FetchedThreads(l, m)))
    IN ((l.op \in {"new", "signed"} /\ ~Ended(l)) \/ l.pc = "done") =>
         /\ l.totalEmails = Len(msgs)
         /\ Len(l.all) = Len(msgs) - Unmatched(msgs)
         /\ l.added <= Len(l.all)
         /\ l.totalUpdated <= Len(l.all)
         /\ Unmatched(msgs) = Len(msgs) => sheet = l.sheet0

C20_Witness ==
  \E p \in Procs :
    /\ IngestDone(inv[p])
    /\ inv[p].totalEmails > Len(inv[p].all)
    /\ inv[p].totalEmails > BATCH_SIZE
    /\ inv[p].added = Len(inv[p].all)
    /\ inv[p].added >= 2
    /\ prev.op = "signed" /\ prev.pc = "done"

-----------------------------------------------------------------------------
(* The watermark stop of processNewProposals *)

\* C21: processNewProposals stands before a search only while none of the
\* numbers collected so far, on any page, equals the watermark; when it has
\* stopped on the watermark it has searched just the pages up to the one that
\* holds the watermark's first occurrence.
C21_NoFetchAfterWatermarkPage ==
  \A p \in Procs :
    LET l == inv[p]
        found == {i \in 1..Len(l.all) : ParseIntIs(l.all[i], l.target)}
    IN l.op = "new" =>
         /\ l.pc = "fetch" => found = {}
         /\ (l.pc \in {"select", "append", "done"} /\ found # {}) =>
              /\ l.fetches = (l.start \div BATCH_SIZE) + 1
              /\ \A i \in found :
                   i > Len(ExtractNew(FlatMessages(GmailSearch(gmailNew, 0, l.start))))

C21_Witness ==
  \E p \in Procs :
    /\ IngestDone(inv[p])
    /\ inv[p].fetches = 1
    /\ MailLen(gmailNew) > BATCH_SIZE
    /\ inv[p].added >= 1
    /\ Len(FeedKeys(gmailNew)) > Len(inv[p].all)

\* C22: when no number of the feed equals the watermark, a finished
\* processNewProposals has collected every number of the feed and appended
\* all of them, in the reverse of feed order.
C22_WatermarkAbsentAppendsAll ==
  \A p \in Procs :
    LET l == inv[p]
        keys == FeedKeys(gmailNew)
    IN (IngestDone(l) /\ WatermarkPos(gmailNew, TargetProposalNumber(l.sheet0)) = 0) =>
         /\ l.all = IF l.file = "Code" THEN keys ELSE Reverse(keys)
         /\ l.added = Len(keys)
         /\ sheet = l.sheet0 \o NewRows(Reverse(keys))

C22_Witness ==
  \E p \in Procs :
    LET l == inv[p]
    IN /\ IngestDone(l)
       /\ WatermarkPos(gmailNew, l.target) = 0
       /\ l.target > 0
       /\ l.fetches >= 3
       /\ l.added >= 2
       /\ sheet[Len(sheet)].a # sheet[Len(sheet) - 1].a

-----------------------------------------------------------------------------
(* Column A *)

\* C24 (append-only key column): no step of either operation removes a row,
\* moves a row or changes the column A of a row; a step of
\* processSignedProposals also leaves the number of rows as it is.
C24_KeyColumnAppendOnly ==
  [][/\ Len(sheet') >= Len(sheet)
     /\ \A i \in 1..Len(sheet) : sheet'[i].a = sheet[i].a
     /\ \A p \in Procs : inv'[p].op = "signed" => Len(sheet') = Len(sheet)]_vars

C24_Witness ==
  \E p \in Procs :
    /\ inv[p].op = "signed" /\ inv[p].pc = "done"
    /\ prev.op = "new" /\ prev.pc = "done" /\ prev.added >= 2
    /\ Len(inv[p].sheet0) >= 4
    /\ sheet = inv[p].sheet0
    /\ sheet[2].f = OK

-----------------------------------------------------------------------------
(* Running processNewProposals again *)

\* C26 (idempotence of ingestion): a processNewProposals that runs to its end
\* right after another one that ran to its end, on the same mailbox, appends
\* nothing.
C26_SecondIngestAppendsNothing ==
  \A p \in Procs :
    LET l == inv[p]
    IN (IngestDone(l) /\ prev.op = "new" /\ prev.pc = "done") =>
         /\ l.added = 0
         /\ sheet = l.sheet0

C26_Witness ==
  \E p \in Procs :
    LET l == inv[p]
    IN /\ IngestDone(l)
       /\ prev.op = "new" /\ prev.pc = "done" /\ prev.added >= 2
       /\ l.fetches >= 1
       /\ Len(l.all) >= 1
       /\ WatermarkPos(gmailNew, l.target) = 1
       /\ l.added = 0

-----------------------------------------------------------------------------
(* Running processNewProposals again after a failure *)

\* the sheet one processNewProposals that runs to its end leaves, from sh
UninterruptedIngest(sh) ==
  sh \o NewRows(AppendOrder(NewerProposals(FeedKeys(gmailNew), TargetProposalNumber(sh))))

\* C27 (resumability of ingestion): when a processNewProposals failed after
\* some of its appendRow calls and the next one runs to its end on the same
\* mailbox, the sheet is the one a single run without failure leaves from the
\* sheet the failed run found.
C27_ResumedIngestEqualsUninterrupted ==
  \A p \in Procs :
    LET l == inv[p]
        orig == SubSeq(l.sheet0, 1, Len(l.sheet0) - prev.added)
    IN (IngestDone(l) /\ prev.op = "new" /\ prev.pc = "aborted" /\ prev.added >= 1) =>
         sheet = UninterruptedIngest(orig)

-----------------------------------------------------------------------------
(* A failed search in processNewProposals *)

\* C28: processNewProposals reads the watermark before its first search and
\* calls appendRow only after its last search: while it searches or selects,
\* and after a search has failed, the sheet is the sheet it found, nothing has
\* been added and the watermark is the one read from that sheet.
C28_FetchFailureLeavesSheet ==
  \A p \in Procs :
    LET l == inv[p]
    IN (/\ l.op = "new"
        /\ \/ l.pc \in {"fetch", "select"}
           \/ l.pc = "aborted" /\ l.todo = <<>>) =>
         /\ sheet = l.sheet0
         /\ l.added = 0
         /\ l.target = TargetProposalNumber(l.sheet0)

C28_Witness ==
  \E p \in Procs :
    LET l == inv[p]
    IN /\ l.op = "new" /\ l.pc = "aborted" /\ l.todo = <<>>
       /\ l.fetches >= 1
       /\ Len(l.all) >= 1
       /\ Len(l.sheet0) >= 2
       /\ l.target > 0
       /\ sheet = l.sheet0



====
